---- MODULE Spec2Model ----
(***************************************************************************)
(* A model of sudoku.py: the exact-cover Sudoku solver (Algorithm X over a *)
(* dict of sets) and the writer that consumes its solutions.               *)
(*                                                                         *)
(* Representation.  A board is a sequence of rows (board[r+1][c+1] is the  *)
(* cell the code calls board[r][c]).  A candidate is the tuple             *)
(* <<row, col, num>> and a constraint the tuple <<kind, a, b>>, exactly as *)
(* the code's tuples.  The dict X is insertion-ordered, so it is a record  *)
(* [keys |-> the keys in iteration order, at |-> key -> set of candidates].*)
(* A Python set has no defined iteration order: wherever the code iterates *)
(* a set and the order is observable, the model chooses the order          *)
(* nondeterministically.                                                   *)
(***************************************************************************)
EXTENDS Integers, Sequences, FiniteSets, TLC

\* Largest value of the -n argument (display) tried.
MaxDisplay == 2

\* Initial value of L in attempt's scan for the shortest constraint.
ScanLimit == 10

Range(s) == {s[x] : x \in DOMAIN s}

\* int(N ** 0.5) for a natural number N.
ISqrt(n) == CHOOSE b \in 0..n : b * b <= n /\ (b + 1) * (b + 1) > n

NoCon == <<"none", 0, 0>>
NoCand == <<0, 0, 0>>

(***************************************************************************)
(* check_board: the validation main applies before write_solutions.        *)
(***************************************************************************)
check_board(board) ==
    LET N == Len(board)
    IN  /\ ISqrt(N) * ISqrt(N) = N
        /\ \A r \in 1..N :
              /\ Len(board[r]) = N
              /\ \A c \in 1..N : board[r][c] \in 0..N

(***************************************************************************)
(* solve, lines 113-137: the candidate universe.                           *)
(***************************************************************************)
\* Mutant of BlockOf: the column's offset inside its block instead of the
\* block's column (col % B for col // B).
BlockOfMod(B, row, col) == B * (row \div B) + (col % B)

\* blc = B * (row // B) + col // B
BlockOf(B, row, col) == B * (row \div B) + col \div B

\* Y[(row, col, num)] = [rowcol, rownum, colnum, blcnum]
BuildY(N) ==
    LET B == ISqrt(N)
    IN  [d \in (0..N-1) \X (0..N-1) \X (1..N) |->
            << <<"rowcol", d[1], d[2]>>,
               <<"rownum", d[1], d[3]>>,
               <<"colnum", d[2], d[3]>>,
               <<"blcnum", BlockOf(B, d[1], d[2]), d[3]>> >>]

\* The keys of X in the order lines 117-122 insert them.
KindAt(q) == <<"rowcol", "rownum", "colnum", "blcnum">>[q]

InitialKeys(N) ==
    [p \in 1..(4 * N * N) |->
        LET i == (p - 1) \div (4 * N)
            j == ((p - 1) % (4 * N)) \div 4
            q == ((p - 1) % 4) + 1
        IN  <<KindAt(q), i, IF q = 1 THEN j ELSE j + 1>>]

\* The keys of Y in the order lines 125-129 insert them.
CandAt(N, p) == <<(p - 1) \div (N * N), ((p - 1) \div N) % N, ((p - 1) % N) + 1>>

\* Lines 136-137 for one item: X[i].add(item) for each i of Y[item].
RECURSIVE AddItem(_, _, _, _)
AddItem(at, Ymap, item, q) ==
    IF q > Len(Ymap[item]) THEN at
    ELSE AddItem([at EXCEPT ![Ymap[item][q]] = @ \cup {item}], Ymap, item, q + 1)

\* Lines 135-137 for the items at positions lo..hi of Y.items(), in order.
\* The range is halved, and the first half evaluated (once) before the
\* second is entered, as the loop does: the one-element set binds its value.
RECURSIVE AddItems(_, _, _, _, _)
AddItems(at, Ymap, N, lo, hi) ==
    IF lo > hi THEN at
    ELSE IF lo = hi THEN AddItem(at, Ymap, CandAt(N, lo), 1)
    ELSE LET mid == (lo + hi) \div 2
         IN  CHOOSE x \in {AddItems(left, Ymap, N, mid + 1, hi) :
                               left \in {AddItems(at, Ymap, N, lo, mid)}} : TRUE

\* Lines 116-122 (every key with an empty set) and 135-137.
BuildX(N, Ymap) ==
    LET ks == InitialKeys(N)
    IN  [keys |-> ks,
         at   |-> AddItems([k \in Range(ks) |-> {}], Ymap, N, 1, N * N * N)]

(***************************************************************************)
(* select, lines 172-180.  The state threaded through the outer loop is    *)
(* [X, cols, err]; err is TRUE once a KeyError was raised (X[i] or X[k] on *)
(* a missing key, or set.remove of a missing element).                     *)
(***************************************************************************)
\* Mutant of SelectStep: a constraint that is no longer a key of X is skipped
\* instead of raising KeyError (X.get(i, ()) for X[i]).
SelectStepLenient(st, Ymap, i) ==
    IF st.err THEN st
    ELSE IF i \notin DOMAIN st.X.at THEN [st EXCEPT !.cols = Append(st.cols, {})]
    ELSE
      LET at == st.X.at
          J  == at[i]
          touched == {Ymap[j][q] : j \in J, q \in 1..4} \ {i}
      IN  [X    |-> [keys |-> SelectSeq(st.X.keys, LAMBDA k : k # i),
                     at   |-> [k \in DOMAIN at \ {i} |->
                                 IF k \in touched
                                 THEN at[k] \ {j \in J : \E q \in DOMAIN Ymap[j] : Ymap[j][q] = k}
                                 ELSE at[k]]],
           cols |-> Append(st.cols, J),
           err  |-> FALSE]

\* Mutant of SelectStep: the constraint is popped, but its candidates stay in
\* the sets of their other constraints (lines 176-179 left out).
SelectStepPopOnly(st, Ymap, i) ==
    IF st.err THEN st
    ELSE IF i \notin DOMAIN st.X.at THEN [st EXCEPT !.err = TRUE]
    ELSE [X    |-> [keys |-> SelectSeq(st.X.keys, LAMBDA k : k # i),
                    at   |-> [k \in DOMAIN st.X.at \ {i} |-> st.X.at[k]]],
          cols |-> Append(st.cols, st.X.at[i]),
          err  |-> FALSE]

\* One iteration of "for i in Y[row]" (lines 175-179).
SelectStep(st, Ymap, i) ==
    IF st.err THEN st
    ELSE IF i \notin DOMAIN st.X.at THEN [st EXCEPT !.err = TRUE]
    ELSE
      LET at == st.X.at
          J  == at[i]
          touched == {Ymap[j][q] : j \in J, q \in 1..4} \ {i}
          bad == \E j \in J : \E q \in DOMAIN Ymap[j] :
                    /\ Ymap[j][q] # i
                    /\ \/ Ymap[j][q] \notin DOMAIN at
                       \/ j \notin at[Ymap[j][q]]
      IN  IF bad THEN [st EXCEPT !.err = TRUE]
          ELSE [X    |-> [keys |-> SelectSeq(st.X.keys, LAMBDA k : k # i),
                          at   |-> [k \in DOMAIN at \ {i} |->
                                      IF k \in touched
                                      THEN at[k] \ {j \in J : \E q \in DOMAIN Ymap[j] : Ymap[j][q] = k}
                                      ELSE at[k]]],
                cols |-> Append(st.cols, J),
                err  |-> FALSE]

\* Mutant of SelectFrom: the constraints are taken from the last to the
\* first (Y[row][::-1] for Y[row]).
RECURSIVE SelectFromBack(_, _, _, _)
SelectFromBack(st, Ymap, cs, q) ==
    IF q > Len(cs) THEN st
    ELSE SelectFromBack(SelectStep(st, Ymap, cs[Len(cs) + 1 - q]), Ymap, cs, q + 1)

RECURSIVE SelectFrom(_, _, _, _)
SelectFrom(st, Ymap, cs, q) ==
    IF q > Len(cs) THEN st
    ELSE CHOOSE x \in {SelectFrom(nxt, Ymap, cs, q + 1) :
                          nxt \in {SelectStep(st, Ymap, cs[q])}} : TRUE

\* select(X, Y, row): the new X and the returned cols, or err.
select(Xd, Ymap, row) ==
    SelectFrom([X |-> Xd, cols |-> <<>>, err |-> FALSE], Ymap, Ymap[row], 1)

(***************************************************************************)
(* deselect, lines 182-188.                                                *)
(***************************************************************************)
\* Mutant of DeselectStep: the constraint gets its set back, but the set's
\* candidates are not added back to their other constraints.
DeselectStepNoReadd(st, Ymap, i) ==
    IF st.err THEN st
    ELSE IF Len(st.cols) = 0 THEN [st EXCEPT !.err = TRUE]
    ELSE [X    |-> [keys |-> IF i \in DOMAIN st.X.at THEN st.X.keys
                             ELSE Append(st.X.keys, i),
                    at   |-> [k \in DOMAIN st.X.at \cup {i} |->
                                IF k = i THEN st.cols[Len(st.cols)] ELSE st.X.at[k]]],
          cols |-> SubSeq(st.cols, 1, Len(st.cols) - 1),
          err  |-> FALSE]

\* One iteration of "for i in Y[row][::-1]" (lines 184-188).
DeselectStep(st, Ymap, i) ==
    IF st.err THEN st
    ELSE IF Len(st.cols) = 0 THEN [st EXCEPT !.err = TRUE]
    ELSE
      LET at   == st.X.at
          S    == st.cols[Len(st.cols)]
          dom1 == DOMAIN at \cup {i}
          touched == {Ymap[j][q] : j \in S, q \in 1..4} \ {i}
      IN  IF touched \subseteq dom1
          THEN [X    |-> [keys |-> IF i \in DOMAIN at THEN st.X.keys
                                   ELSE Append(st.X.keys, i),
                          at   |-> [k \in dom1 |->
                                      IF k = i THEN S
                                      ELSE IF k \in touched
                                      THEN at[k] \cup {j \in S : \E q \in DOMAIN Ymap[j] : Ymap[j][q] = k}
                                      ELSE at[k]]],
                cols |-> SubSeq(st.cols, 1, Len(st.cols) - 1),
                err  |-> FALSE]
          ELSE [st EXCEPT !.err = TRUE]

\* Mutant of DeselectFrom: the first constraint of Y[row] is not restored
\* (Y[row][:0:-1] for Y[row][::-1]).
RECURSIVE DeselectFromSkipFirst(_, _, _, _)
DeselectFromSkipFirst(st, Ymap, cs, q) ==
    IF q < 2 THEN st
    ELSE DeselectFromSkipFirst(DeselectStep(st, Ymap, cs[q]), Ymap, cs, q - 1)

RECURSIVE DeselectFrom(_, _, _, _)
DeselectFrom(st, Ymap, cs, q) ==
    IF q < 1 THEN st
    ELSE CHOOSE x \in {DeselectFrom(nxt, Ymap, cs, q - 1) :
                          nxt \in {DeselectStep(st, Ymap, cs[q])}} : TRUE

\* Mutant of deselect: the constraints are restored in the order of Y[row],
\* not in reverse (Y[row] for Y[row][::-1]).
RECURSIVE DeselectForwardFrom(_, _, _, _)
DeselectForwardFrom(st, Ymap, cs, q) ==
    IF q > Len(cs) THEN st
    ELSE DeselectForwardFrom(DeselectStep(st, Ymap, cs[q]), Ymap, cs, q + 1)

deselect_forward(Xd, Ymap, row, cols) ==
    DeselectForwardFrom([X |-> Xd, cols |-> cols, err |-> FALSE], Ymap, Ymap[row], 1)

deselect(Xd, Ymap, row, cols) ==
    DeselectFrom([X |-> Xd, cols |-> cols, err |-> FALSE], Ymap, Ymap[row], Len(Ymap[row]))

(***************************************************************************)
(* attempt, lines 158-163: the scan for the constraint to branch on.  The   *)
(* loop state is [i, L, done]; i is NoCon while the local i is unbound.    *)
(***************************************************************************)
\* One iteration of "for a in X" (lines 160-163); done is TRUE after break.
ScanStep(Xd, st, a) ==
    LET n == Cardinality(Xd.at[a])
        i1 == IF n < st.L THEN a ELSE st.i
        L1 == IF n < st.L THEN n ELSE st.L
    IN  [i |-> i1, L |-> L1, done |-> L1 = 1]

\* The loop over the keys at positions lo..hi of X, in order, stopping at
\* the break (the range is halved only to keep the evaluation shallow).
RECURSIVE Scan(_, _, _, _)
Scan(Xd, st, lo, hi) ==
    IF st.done \/ lo > hi THEN st
    ELSE IF lo = hi THEN ScanStep(Xd, st, Xd.keys[lo])
    ELSE LET mid == (lo + hi) \div 2
         IN  CHOOSE x \in {IF left.done THEN left ELSE Scan(Xd, left, mid + 1, hi) :
                               left \in {Scan(Xd, st, lo, mid)}} : TRUE

\* Lines 158-163: L = 10, then the loop; i is NoCon if it was never assigned.
ChooseConstraint(Xd) ==
    Scan(Xd, [i |-> NoCon, L |-> ScanLimit, done |-> FALSE], 1, Len(Xd.keys))

(***************************************************************************)
(* solve, lines 149-151: b = deepcopy(board); b[r][c] = n for the solution.*)
(* The heap holds the grid objects: heap[1] is the caller's board, and     *)
(* every deepcopy allocates the next reference.                            *)
(***************************************************************************)
\* Mutant of deepcopy: the reference itself, no copy (b = board).
deepcopy_alias(hp, ref) == [heap |-> hp, ref |-> ref]

deepcopy(hp, ref) == [heap |-> Append(hp, hp[ref]), ref |-> Len(hp) + 1]

\* Mutant of FillFrom: row and column swapped (b[c][r] = n).
RECURSIVE FillFromTransposed(_, _, _, _)
FillFromTransposed(hp, ref, sol, q) ==
    IF q > Len(sol) THEN hp
    ELSE LET r == sol[q][1]
             c == sol[q][2]
             n == sol[q][3]
         IN  FillFromTransposed([hp EXCEPT ![ref][c + 1][r + 1] = n], ref, sol, q + 1)

RECURSIVE FillFrom(_, _, _, _)
FillFrom(hp, ref, sol, q) ==
    IF q > Len(sol) THEN hp
    ELSE LET r == sol[q][1]
             c == sol[q][2]
             n == sol[q][3]
         IN  FillFrom([hp EXCEPT ![ref][r + 1][c + 1] = n], ref, sol, q + 1)

\* The heap after lines 149-151 and the reference solve yields.
Materialize(hp, sol) ==
    LET cp == deepcopy(hp, 1)
    IN  [heap |-> FillFrom(cp.heap, cp.ref, sol, 1), ref |-> cp.ref]

(***************************************************************************)
(* Inputs.                                                                 *)
(***************************************************************************)
Solved4 == << <<1, 2, 3, 4>>, <<3, 4, 1, 2>>, <<2, 1, 4, 3>>, <<4, 3, 2, 1>> >>

\* board with the listed cells (0-based <<row, col>>) emptied
Blank(board, cells) ==
    [r \in DOMAIN board |->
        [c \in DOMAIN board[r] |-> IF <<r - 1, c - 1>> \in cells THEN 0 ELSE board[r][c]]]

EmptyBoard(N) == [r \in 1..N |-> [c \in 1..N |-> 0]]

Boards ==
    { <<>>,                                   \* N = 0
      << <<0>> >>, << <<1>> >>,               \* N = 1
      Solved4,                                \* no empty cell
      Blank(Solved4, {<<0,0>>, <<0,1>>, <<2,0>>, <<2,1>>}),              \* 2 solutions
      Blank(Solved4, {<<0,0>>, <<0,1>>, <<0,2>>, <<1,0>>, <<1,2>>, <<2,0>>, <<2,1>>}),  \* 3 solutions
      Blank(Solved4, {<<0,0>>, <<0,1>>, <<0,2>>, <<0,3>>, <<1,0>>, <<1,1>>, <<1,2>>, <<1,3>>}),  \* 4 solutions
      \* consistent clues, no completion: cell (3,3) has no value left, and
      \* cell (0,0), earlier in X, has exactly one
      << <<0, 2, 3, 4>>, <<3, 4, 0, 1>>, <<2, 1, 4, 3>>, <<4, 3, 2, 0>> >>,
      \* consistent clues, no completion: cell (0,0), first in X, has no value left
      << <<0, 2, 3, 4>>, <<1, 4, 0, 0>>, <<0, 0, 0, 0>>, <<0, 0, 0, 0>> >>,
      \* the 4-clue grid of the design document (value 1 has no place in row 3)
      << <<1, 0, 0, 0>>, <<0, 0, 1, 0>>, <<0, 1, 0, 0>>, <<0, 0, 0, 2>> >>,
      \* two clues sharing a row-value, a column-value, a block-value
      << <<1, 1, 0, 0>>, <<0, 0, 0, 0>>, <<0, 0, 0, 0>>, <<0, 0, 0, 0>> >>,
      << <<0, 0, 0, 0>>, <<0, 0, 3, 0>>, <<0, 0, 0, 0>>, <<0, 0, 3, 0>> >>,
      << <<0, 0, 0, 0>>, <<0, 0, 0, 0>>, <<2, 0, 0, 0>>, <<0, 2, 0, 0>> >> }

LargeBoards == { EmptyBoard(16) }

(***************************************************************************)
(* State.                                                                  *)
(***************************************************************************)
VARIABLES
    argn,       \* main: args.n, the value passed as display
    input,      \* the board as main passed it to write_solutions (a value)
    heap,       \* grid objects: heap[1] is board, the rest are solve's copies
    display,    \* write_solutions: display
    i,          \* write_solutions: i (0 stands for None; both are falsy on line 96)
    file,       \* write_solutions: what was written to f, in order
    yielded,    \* references of the grids solve has yielded, in order
    X, Y,       \* solve: the two dicts
    seedPos,    \* solve: row-major position of the clue loop of lines 140-144
    solution,   \* attempt: the shared solution list
    stack,      \* the suspended and running frames of attempt, outermost first
    phase,      \* where the program is
    error       \* the exception that ended the run, "" if none

vars == <<argn, input, heap, display, i, file, yielded, X, Y, seedPos, solution, stack, phase, error>>

EmptyDict == [keys |-> <<>>, at |-> <<>>]

NewFrame == [pc |-> "call", i |-> NoCon, rows |-> {}, todo |-> {}, row |-> NoCand, cols |-> <<>>]

Top == stack[Len(stack)]

SetTop(f) == [stack EXCEPT ![Len(stack)] = f]

InitWith(boards) ==
    /\ input \in {b \in boards : check_board(b)}
    /\ argn \in 0..MaxDisplay
    /\ heap = <<input>>
    /\ display = argn
    /\ i = 0
    /\ file = <<>>
    /\ yielded = <<>>
    /\ X = EmptyDict
    /\ Y = <<>>
    /\ seedPos = 0
    /\ solution = <<>>
    /\ stack = <<>>
    /\ phase = "begin"
    /\ error = ""

Init == InitWith(Boards)

InitLarge == InitWith(Boards \cup LargeBoards)

(***************************************************************************)
(* write_solutions, lines 77-85: the header, display and i.                *)
(***************************************************************************)
write_begin ==
    /\ phase = "begin"
    /\ file' = <<[kind |-> "initial", n |-> 0, grid |-> heap[1]]>>
    /\ display' = IF display = 0 THEN -1 ELSE display
    /\ i' = 0
    /\ phase' = "build"
    /\ UNCHANGED <<argn, input, heap, yielded, X, Y, seedPos, solution, stack, error>>

(***************************************************************************)
(* solve, lines 113-137, run by the first next() of the for loop.          *)
(***************************************************************************)
solve_build ==
    /\ phase = "build"
    /\ LET N == Len(heap[1])
       IN  /\ Y' = BuildY(N)
           /\ X' = BuildX(N, Y')
    /\ seedPos' = 0
    /\ phase' = "seed"
    /\ UNCHANGED <<argn, input, heap, display, i, file, yielded, solution, stack, error>>

\* Mutant of CluesLeft: the clues of the first row are not seeded
\* (range(1, N) for range(N) on line 140).
CluesLeftBelowFirstRow ==
    LET N == Len(heap[1])
    IN  {p \in seedPos..(N * N - 1) : p >= N /\ heap[1][(p \div N) + 1][(p % N) + 1] # 0}

\* The row-major positions, from seedPos on, of the non-zero cells of board.
CluesLeft ==
    LET N == Len(heap[1])
    IN  {p \in seedPos..(N * N - 1) : heap[1][(p \div N) + 1][(p % N) + 1] # 0}

\* Lines 139-146: the next clue is selected; a KeyError becomes 'Invalid board.'.
solve_seed ==
    /\ phase = "seed"
    /\ CluesLeft # {}
    /\ LET N == Len(heap[1])
           p == CHOOSE q \in CluesLeft : \A o \in CluesLeft : q <= o
           row == p \div N
           col == p % N
           r == select(X, Y, <<row, col, heap[1][row + 1][col + 1]>>)
       IN  IF r.err
           THEN /\ phase' = "invalid"
                /\ error' = "Invalid board."
                /\ X' = r.X
                /\ UNCHANGED seedPos
           ELSE /\ X' = r.X
                /\ seedPos' = p + 1
                /\ UNCHANGED <<phase, error>>
    /\ UNCHANGED <<argn, input, heap, display, i, file, yielded, Y, solution, stack>>

\* Line 148: attempt(X, Y, []) is called.
solve_search ==
    /\ phase = "seed"
    /\ CluesLeft = {}
    /\ solution' = <<>>
    /\ stack' = <<NewFrame>>
    /\ phase' = "search"
    /\ UNCHANGED <<argn, input, heap, display, i, file, yielded, X, Y, seedPos, error>>

(***************************************************************************)
(* attempt, lines 154-170.                                                 *)
(***************************************************************************)
\* Lines 155-156 and solve's lines 149-152: X is empty, the solution is yielded
\* up the frames and solve yields its filled copy of the board.
attempt_yield ==
    /\ phase = "search"
    /\ Top.pc = "call"
    /\ X.keys = <<>>
    /\ LET m == Materialize(heap, solution)
       IN  /\ heap' = m.heap
           /\ yielded' = Append(yielded, m.ref)
    /\ stack' = SetTop([Top EXCEPT !.pc = "yielded"])
    /\ phase' = "yield"
    /\ UNCHANGED <<argn, input, display, i, file, X, Y, seedPos, solution, error>>

\* Lines 158-164: the constraint is chosen and list(X[i]) taken; with no
\* constraint shorter than L, i is unbound on line 164 (UnboundLocalError).
attempt_choose ==
    /\ phase = "search"
    /\ Top.pc = "call"
    /\ X.keys # <<>>
    /\ LET ch == ChooseConstraint(X)
       IN  IF ch.i = NoCon
           THEN /\ phase' = "crashed"
                /\ error' = "UnboundLocalError"
                /\ UNCHANGED stack
           ELSE /\ stack' = SetTop([Top EXCEPT !.pc = "loop", !.i = ch.i,
                                               !.rows = X.at[ch.i], !.todo = X.at[ch.i]])
                /\ UNCHANGED <<phase, error>>
    /\ UNCHANGED <<argn, input, heap, display, i, file, yielded, X, Y, seedPos, solution>>

\* Lines 164-167: the next row of the list is appended and selected, and
\* attempt is called on the result.
attempt_try ==
    /\ phase = "search"
    /\ Top.pc = "loop"
    /\ \E row \in Top.todo :
         LET r == select(X, Y, row)
         IN  /\ solution' = Append(solution, row)
             /\ X' = r.X
             /\ IF r.err
                THEN /\ phase' = "crashed"
                     /\ error' = "KeyError"
                     /\ UNCHANGED stack
                ELSE /\ stack' = Append(SetTop([Top EXCEPT !.pc = "wait", !.row = row,
                                                           !.todo = Top.todo \ {row},
                                                           !.cols = r.cols]),
                                        NewFrame)
                     /\ UNCHANGED <<phase, error>>
    /\ UNCHANGED <<argn, input, heap, display, i, file, yielded, Y, seedPos>>

\* The running frame ends: after its yield, or with its list exhausted.  The
\* outermost frame ending ends solve and the for loop of write_solutions.
attempt_return ==
    /\ phase = "search"
    /\ \/ Top.pc = "yielded"
       \/ Top.pc = "loop" /\ Top.todo = {}
    /\ IF Len(stack) = 1
       THEN /\ stack' = <<>>
            /\ phase' = "loopend"
       ELSE /\ stack' = [SubSeq(stack, 1, Len(stack) - 1) EXCEPT ![Len(stack) - 1].pc = "undo"]
            /\ UNCHANGED phase
    /\ UNCHANGED <<argn, input, heap, display, i, file, yielded, X, Y, seedPos, solution, error>>

\* Mutant of attempt_undo: solution.pop() without the deselect of line 169.
attempt_undo_no_deselect ==
    /\ phase = "search"
    /\ Top.pc = "undo"
    /\ stack' = SetTop([Top EXCEPT !.pc = "loop", !.cols = <<>>])
    /\ solution' = SubSeq(solution, 1, Len(solution) - 1)
    /\ UNCHANGED <<argn, input, heap, display, i, file, yielded, X, Y, seedPos, phase, error>>

\* Lines 169-170: deselect(X, Y, row, cols); solution.pop().
attempt_undo ==
    /\ phase = "search"
    /\ Top.pc = "undo"
    /\ LET d == deselect(X, Y, Top.row, Top.cols)
       IN  /\ X' = d.X
           /\ IF d.err
              THEN /\ phase' = "crashed"
                   /\ error' = "KeyError"
                   /\ UNCHANGED <<stack, solution>>
              ELSE /\ stack' = SetTop([Top EXCEPT !.pc = "loop", !.cols = d.cols])
                   /\ solution' = SubSeq(solution, 1, Len(solution) - 1)
                   /\ UNCHANGED <<phase, error>>
    /\ UNCHANGED <<argn, input, heap, display, i, file, yielded, Y, seedPos>>

(***************************************************************************)
(* write_solutions, lines 86-106.                                          *)
(***************************************************************************)
\* Lines 86-94 for a yielded grid that is written; the loop then resumes solve.
write_solution ==
    /\ phase = "yield"
    /\ Len(yielded) # display + 1
    /\ i' = Len(yielded)
    /\ file' = Append(file, [kind |-> "solution", n |-> i', grid |-> heap[yielded[Len(yielded)]]])
    /\ phase' = "search"
    /\ UNCHANGED <<argn, input, heap, display, yielded, X, Y, seedPos, solution, stack, error>>

\* Lines 87-90: the grid after the last one wanted ends the loop.
write_break ==
    /\ phase = "yield"
    /\ Len(yielded) = display + 1
    /\ i' = Len(yielded) - 1
    /\ display' = -2
    /\ phase' = "loopend"
    /\ UNCHANGED <<argn, input, heap, file, yielded, X, Y, seedPos, solution, stack, error>>

\* Lines 96-106.
write_finish ==
    /\ phase = "loopend"
    /\ IF i = 0
       THEN /\ file' = Append(file, [kind |-> "nosolutions", n |-> 0, grid |-> <<>>])
            /\ phase' = "nosolutions"
            /\ error' = "Invalid board."
       ELSE /\ file' = Append(file, [kind |-> "count", n |-> i, grid |-> <<>>])
            /\ phase' = "done"
            /\ UNCHANGED error
    /\ UNCHANGED <<argn, input, heap, display, i, yielded, X, Y, seedPos, solution, stack>>

Next ==
    \/ write_begin
    \/ solve_build
    \/ solve_seed
    \/ solve_search
    \/ attempt_yield
    \/ attempt_choose
    \/ attempt_try
    \/ attempt_return
    \/ attempt_undo
    \/ write_solution
    \/ write_break
    \/ write_finish

Spec == Init /\ [][Next]_vars

SpecLarge == InitLarge /\ [][Next]_vars

(***************************************************************************)
(* Vocabulary of the properties.  These definitions say what a Sudoku      *)
(* completion is from the rules of the puzzle, without the solver's dicts. *)
(***************************************************************************)
\* Largest board size whose completions are enumerated by RefSolve.
MaxSolveN == 4

Size == Len(input)

Cells(N) == (0..N-1) \X (0..N-1)

CellAt(g, cell) == g[cell[1] + 1][cell[2] + 1]

\* Two different cells in one row, one column or one block.
SameUnit(N, a, b) ==
    /\ a # b
    /\ \/ a[1] = b[1]
       \/ a[2] = b[2]
       \/ /\ a[1] \div ISqrt(N) = b[1] \div ISqrt(N)
          /\ a[2] \div ISqrt(N) = b[2] \div ISqrt(N)

\* No value occurs twice in a row, a column or a block (empty cells aside).
NoClash(g) ==
    \A a \in Cells(Len(g)) : \A b \in Cells(Len(g)) :
        (SameUnit(Len(g), a, b) /\ CellAt(g, a) # 0) => CellAt(g, a) # CellAt(g, b)

IsGrid(g, N) ==
    /\ DOMAIN g = 1..N
    /\ \A r \in 1..N : DOMAIN g[r] = 1..N /\ \A c \in 1..N : g[r][c] \in 0..N

\* The rows, the columns and the B x B blocks, each as its set of cells.
Units(N) ==
    {{a \in Cells(N) : a[1] = u} : u \in 0..N-1}
    \cup {{a \in Cells(N) : a[2] = u} : u \in 0..N-1}
    \cup {{a \in Cells(N) : a[1] \div ISqrt(N) = u \div ISqrt(N)
                            /\ a[2] \div ISqrt(N) = u % ISqrt(N)} : u \in 0..N-1}

\* Every row, column and block of g holds each of 1..N exactly once, and g
\* keeps the clues of b.
IsCompletion(g, b) ==
    /\ IsGrid(g, Len(b))
    /\ \A u \in Units(Len(b)) : \A v \in 1..Len(b) :
          Cardinality({a \in u : CellAt(g, a) = v}) = 1
    /\ \A a \in Cells(Len(b)) : CellAt(b, a) # 0 => CellAt(g, a) = CellAt(b, a)

\* All completions of g, by filling its first empty cell in every way that
\* clashes with no filled cell.
RECURSIVE RefSolve(_)
RefSolve(g) ==
    LET N == Len(g)
        empty == {a \in Cells(N) : CellAt(g, a) = 0}
    IN  IF empty = {} THEN (IF NoClash(g) THEN {g} ELSE {})
        ELSE LET a == CHOOSE x \in empty : \A y \in empty : x[1] * N + x[2] <= y[1] * N + y[2]
                 ok == {v \in 1..N : \A b \in Cells(N) : SameUnit(N, a, b) => CellAt(g, b) # v}
             IN  UNION {RefSolve([g EXCEPT ![a[1] + 1][a[2] + 1] = v]) : v \in ok}

\* A completed grid of any (square) size N: rows are shifts of one another.
Pattern(N) ==
    [r \in 1..N |-> [c \in 1..N |->
        ((ISqrt(N) * ((r - 1) % ISqrt(N)) + (r - 1) \div ISqrt(N) + (c - 1)) % N) + 1]]

\* The completions of b the properties compare with: all of them up to size
\* MaxSolveN; for a larger board the pattern grid, when it completes b.
KnownCompletions(b) ==
    IF Len(b) <= MaxSolveN THEN (IF NoClash(b) THEN RefSolve(b) ELSE {})
    ELSE {g \in {Pattern(Len(b))} : IsCompletion(g, b)}

\* Two clues share a row-value, column-value or block-value constraint.
CluesConflict(b) == ~NoClash(b)

YieldedGrids == [k \in 1..Len(yielded) |-> heap[yielded[k]]]

\* The candidates selected so far: the clues seeded and the current path.
SeededClues ==
    {<<p \div Size, p % Size, input[(p \div Size) + 1][(p % Size) + 1]>> :
        p \in {q \in 0..(seedPos - 1) : input[(q \div Size) + 1][(q % Size) + 1] # 0}}

Selected == SeededClues \cup Range(solution)

\* X holds a consistent index: solve has built it and no exception left it half-updated.
Indexed == phase \in {"seed", "search", "yield", "loopend", "done", "nosolutions"}

\* The candidates that are members of X under all their constraints.
Live == {r \in DOMAIN Y : \A q \in DOMAIN Y[r] : Y[r][q] \in DOMAIN X.at /\ r \in X.at[Y[r][q]]}

Shares(d, e) == Range(Y[d]) \cap Range(Y[e]) # {}

\* attempt has just chosen its constraint and tried none of its rows yet.
JustChose == phase = "search" /\ Top.pc = "loop" /\ Top.todo = Top.rows

\* solve's iteration is over: exhausted, or ended by an exception of the search.
SolveEnded ==
    \/ phase \in {"loopend", "done", "nosolutions"} /\ display # -2
    \/ phase = "crashed"

(***************************************************************************)
(* Properties.                                                             *)
(***************************************************************************)

\* C1: every grid solve yields is a valid completion of the input board: each
\* row, column and block holds each of 1..N exactly once, and every clue of
\* the input keeps its value.
C1_YieldedGridsAreCompletions ==
    \A k \in DOMAIN yielded : IsCompletion(heap[yielded[k]], input)

\* C1 witness: a second grid was yielded for a board with clues and empty cells.
C1_Witness ==
    /\ phase = "yield"
    /\ Len(yielded) = 2
    /\ \E a \in Cells(Size) : CellAt(input, a) # 0
    /\ \E a \in Cells(Size) : CellAt(input, a) = 0

\* C2: when solve's iteration is over it has yielded every valid completion
\* of the board exactly once, and nothing else (so as many grids as there are
\* completions, possibly none).
C2_AllCompletionsExactlyOnce ==
    (SolveEnded /\ ~CluesConflict(input)) =>
        /\ \A g \in KnownCompletions(input) :
              Cardinality({k \in DOMAIN yielded : YieldedGrids[k] = g}) = 1
        /\ \A k \in DOMAIN yielded : IsCompletion(YieldedGrids[k], input)
        /\ \A k \in DOMAIN yielded : \A m \in DOMAIN yielded :
              YieldedGrids[k] = YieldedGrids[m] => k = m

\* C3: from any state of X and for any live candidate r, select(X, Y, r)
\* followed at once by deselect(X, Y, r, cols) raises nothing and leaves X
\* with the same keys and the same set under each key.
C3_SelectDeselectRestores ==
    Indexed =>
        \A r \in Live :
            LET s == select(X, Y, r)
            IN  /\ ~s.err
                /\ LET d == deselect(s.X, Y, r, s.cols)
                   IN  ~d.err /\ d.X.at = X.at

\* C3 witness: clues were seeded, the search has selected too, and candidates
\* are still live.
C3_Witness ==
    /\ phase = "search"
    /\ SeededClues # {}
    /\ Len(solution) >= 1
    /\ Cardinality(Live) >= 2

\* C4: with two clues sharing a constraint, seeding never completes: attempt
\* is never called, nothing is yielded, and the only way out of seeding is
\* the 'Invalid board.' error.
C4_ConflictFailsSeeding ==
    CluesConflict(input) =>
        /\ phase \in {"begin", "build", "seed", "invalid"}
        /\ phase = "seed" => CluesLeft # {}
        /\ phase = "invalid" => error = "Invalid board."
        /\ stack = <<>>
        /\ yielded = <<>>

\* C4 witness: seeding a board with conflicting clues has raised.
C4_Witness ==
    /\ CluesConflict(input)
    /\ phase = "invalid"
    /\ error = "Invalid board."

\* C5: at every operation boundary a constraint is a key of X iff no selected
\* candidate satisfies it, and X[c] holds exactly the candidates that have c
\* among their constraints and share no constraint with a selected candidate.
C5_IndexMatchesSelection ==
    Indexed =>
        LET covered == UNION {Range(Y[s]) : s \in Selected}
            free    == {d \in DOMAIN Y : Range(Y[d]) \cap covered = {}}
            all     == UNION {Range(Y[d]) : d \in DOMAIN Y}
        IN  /\ Selected \subseteq DOMAIN Y
            /\ DOMAIN X.at = all \ covered
            /\ Range(X.keys) = DOMAIN X.at
            /\ Len(X.keys) = Cardinality(DOMAIN X.at)
            /\ \A c \in DOMAIN X.at : X.at[c] = {d \in free : c \in Range(Y[d])}

\* C5 witness: the search is past a deselect, with clues seeded and a
\* candidate selected.
C5_Witness ==
    /\ phase = "search"
    /\ Top.pc = "loop"
    /\ Top.todo # Top.rows
    /\ Len(solution) >= 1
    /\ SeededClues # {}

\* C6: the universe solve builds: Y has N^3 candidates, each with its four
\* constraints rowcol(row,col), rownum(row,num), colnum(col,num) and
\* blcnum(B*(row div B) + col div B, num); X has 4*N^2 constraints, each with
\* exactly the N candidates that satisfy it.
C6_UniverseBuilt ==
    (phase = "seed" /\ seedPos = 0) =>
        LET N == Size
            B == ISqrt(N)
            sat(d, k) ==
                \/ k[1] = "rowcol" /\ k[2] = d[1] /\ k[3] = d[2]
                \/ k[1] = "rownum" /\ k[2] = d[1] /\ k[3] = d[3]
                \/ k[1] = "colnum" /\ k[2] = d[2] /\ k[3] = d[3]
                \/ /\ k[1] = "blcnum" /\ k[3] = d[3]
                   /\ d[1] \div B = k[2] \div B
                   /\ d[2] \div B = k[2] % B
        IN  /\ DOMAIN Y = (0..N-1) \X (0..N-1) \X (1..N)
            /\ Cardinality(DOMAIN Y) = N * N * N
            /\ \A d \in DOMAIN Y :
                  Y[d] = << <<"rowcol", d[1], d[2]>>, <<"rownum", d[1], d[3]>>,
                            <<"colnum", d[2], d[3]>>,
                            <<"blcnum", B * (d[1] \div B) + d[2] \div B, d[3]>> >>
            /\ Cardinality(DOMAIN X.at) = 4 * N * N
            /\ Len(X.keys) = 4 * N * N
            /\ Range(X.keys) = DOMAIN X.at
            /\ DOMAIN X.at = {"rowcol"} \X (0..N-1) \X (0..N-1)
                             \cup {"rownum", "colnum", "blcnum"} \X (0..N-1) \X (1..N)
            /\ \A k \in DOMAIN X.at :
                  /\ Cardinality(X.at[k]) = N
                  /\ X.at[k] = {d \in DOMAIN Y : sat(d, k)}

\* C6 witness: the universe of a 4 x 4 board has just been built.
C6_Witness ==
    /\ phase = "seed"
    /\ seedPos = 0
    /\ Size = 4
    /\ Cardinality(DOMAIN Y) = 64

\* C7: no step changes the input board or a grid already yielded, and every
\* yielded grid is an object of its own (not the board, not an earlier grid).
C7_BoardAndYieldedGridsFrozen ==
    [][ /\ heap[1] = input
        /\ heap'[1] = input
        /\ \A k \in DOMAIN yielded : heap'[yielded[k]] = heap[yielded[k]]
        /\ \A k \in DOMAIN yielded' :
              /\ yielded'[k] # 1
              /\ \A m \in DOMAIN yielded' : yielded'[k] = yielded'[m] => k = m ]_vars

\* C7 witness: the loop was abandoned after a grid had been written, with a
\* further grid yielded since, for a board with empty cells.
C7_Witness ==
    /\ phase = "done"
    /\ display = -2
    /\ Len(yielded) >= 2
    /\ \E a \in Cells(Size) : CellAt(input, a) = 0

\* C8: when write_solutions is over, the solutions written are the first
\* min(K, T) grids of the search, numbered from 1 (all T of them for K = 0),
\* and a final count that was written equals their number.
C8_WritesMinOfLimitAndTotal ==
    (phase \in {"done", "nosolutions", "invalid", "crashed"}) =>
        LET W == SelectSeq(file, LAMBDA e : e.kind = "solution")
            T == Cardinality(KnownCompletions(input))
        IN  /\ Len(W) <= Len(yielded)
            /\ \A k \in DOMAIN W : W[k].n = k /\ W[k].grid = YieldedGrids[k]
            /\ \A k \in DOMAIN W : IsCompletion(W[k].grid, input)
            /\ \A k \in DOMAIN W : \A m \in DOMAIN W : W[k].grid = W[m].grid => k = m
            /\ argn > 0 => Len(W) <= argn
            /\ argn > 0 => Len(W) >= (IF argn < T THEN argn ELSE T)
            /\ argn = 0 => Len(W) >= T
            /\ \A q \in DOMAIN file : file[q].kind = "count" => file[q].n = Len(W)

\* C9: whenever attempt is called with a non-empty X it goes on with a
\* constraint whose set is the smallest in X, the first such one in X's
\* order, and iterates over that set.
C9_PicksFirstMinimum ==
    /\ error # "UnboundLocalError"
    /\ JustChose =>
          /\ Top.i \in DOMAIN X.at
          /\ Top.rows = X.at[Top.i]
          /\ \A k \in DOMAIN X.at : Cardinality(X.at[Top.i]) <= Cardinality(X.at[k])
          /\ \A p \in DOMAIN X.keys :
                Cardinality(X.at[X.keys[p]]) = Cardinality(X.at[Top.i])
                    => \E q \in 1..p : X.keys[q] = Top.i

\* C10: an attempt called while some constraint of X has no candidate has
\* nothing to try: no select, no recursive call, no yield.
C10_DeadEndTriesNothing ==
    (JustChose /\ \E k \in DOMAIN X.at : X.at[k] = {}) => Top.rows = {}

(***************************************************************************)
(* The index as a function of the selections made, by replaying the        *)
(* program's own select.                                                   *)
(***************************************************************************)
\* Lines 139-146 for the cells at positions p.. of the board, in order: each
\* clue is selected; a failed select ends the seeding.
RECURSIVE SeedFrom(_, _, _, _)
SeedFrom(st, Ymap, b, p) ==
    IF st.err \/ p >= Len(b) * Len(b) THEN st
    ELSE LET n == b[(p \div Len(b)) + 1][(p % Len(b)) + 1]
         IN  IF n = 0 THEN SeedFrom(st, Ymap, b, p + 1)
             ELSE SeedFrom(select(st.X, Ymap, <<p \div Len(b), p % Len(b), n>>), Ymap, b, p + 1)

\* Lines 113-146: the index solve hands to attempt for board b.
PostSeeding(b) ==
    LET Ymap == BuildY(Len(b))
    IN  SeedFrom([X |-> BuildX(Len(b), Ymap), cols |-> <<>>, err |-> FALSE], Ymap, b, 0)

\* Lines 165-166 repeated: the rows sol[q..] selected one after the other.
RECURSIVE SelectAll(_, _, _, _)
SelectAll(st, Ymap, sol, q) ==
    IF st.err \/ q > Len(sol) THEN st
    ELSE SelectAll(select(st.X, Ymap, sol[q]), Ymap, sol, q + 1)

\* The index attempt is called with after the rows of sol were selected.
IndexAfter(b, sol) == SelectAll(PostSeeding(b), BuildY(Len(b)), sol, 1)

\* The frame that runs is about to finish: it has yielded, or its list is done.
Finishing == phase = "search" /\ (Top.pc = "yielded" \/ (Top.pc = "loop" /\ Top.todo = {}))

\* C11: during the search the selects not yet undone are those of the frames
\* below the running one, one per frame and in the order of the frames, and
\* they are the Partial Solution; X is (by content) the post-seeding index
\* with exactly these selected.  So a frame starts and finishes with the same
\* X and the same Partial Solution, a deselect undoes the last select not yet
\* undone, in the frame that made it, and when the search is exhausted X is
\* the post-seeding index and the Partial Solution is empty.
C11_SelectsUndoneInLifoOrder ==
    /\ [](  /\ (phase \in {"search", "yield"} /\ stack # <<>>) =>
                /\ Len(solution) = (IF Top.pc = "undo" THEN Len(stack) ELSE Len(stack) - 1)
                /\ \A d \in DOMAIN solution :
                      stack[d].row = solution[d] /\ stack[d].pc \in {"wait", "undo"}
                /\ ~IndexAfter(input, solution).err
                /\ X.at = IndexAfter(input, solution).X.at
            /\ Finishing =>
                /\ Len(solution) = Len(stack) - 1
                /\ X.at = IndexAfter(input, SubSeq(solution, 1, Len(stack) - 1)).X.at
            /\ (phase = "loopend" /\ display # -2) =>
                /\ solution = <<>>
                /\ stack = <<>>
                /\ X.at = PostSeeding(input).X.at )
    /\ [][ /\ (phase = "search" /\ phase' = "search" /\ Len(solution') > Len(solution)) =>
                /\ Len(stack') = Len(stack) + 1
                /\ SubSeq(solution', 1, Len(solution)) = solution
                /\ Len(solution') = Len(solution) + 1
           /\ (phase = "search" /\ phase' = "search" /\ Len(solution') < Len(solution)) =>
                /\ Len(stack') = Len(stack)
                /\ solution = Append(solution', Top.row)
                /\ Top.cols = select(X', Y, Top.row).cols
                /\ stack'[Len(stack)].cols = <<>>
           /\ (phase = "search" /\ Len(stack') < Len(stack)) =>
                /\ X' = X
                /\ solution' = solution
                /\ Len(solution) = Len(stack) - 1 ]_vars

\* C11 witness: a frame two levels down finishes without a solution, after an
\* earlier row of its list was selected and undone.
C11_Witness ==
    /\ phase = "search"
    /\ Len(stack) >= 3
    /\ Top.pc = "loop"
    /\ Top.todo = {}
    /\ Cardinality(Top.rows) >= 2

\* C12: a select on a live candidate r succeeds; after it none of r's four
\* constraints is a key of X, no candidate sharing a constraint with r is in
\* any set left in X, and a candidate sharing no constraint with r is in
\* each of its four constraints' sets exactly if it was before; the steps
\* that select leave Y as it was.
C12_SelectFrameEffect ==
    /\ [](Indexed =>
            \A r \in Live :
                LET s == select(X, Y, r)
                    after == s.X.at
                IN  /\ ~s.err
                    /\ Range(s.X.keys) = DOMAIN after
                    /\ \A q \in DOMAIN Y[r] :
                          Y[r][q] \in DOMAIN X.at /\ Y[r][q] \notin DOMAIN after
                    /\ \A d \in DOMAIN Y :
                          IF Shares(d, r)
                          THEN \A k \in DOMAIN after : d \notin after[k]
                          ELSE \A q \in DOMAIN Y[d] :
                                  LET k == Y[d][q]
                                  IN  /\ k \in DOMAIN after <=> k \in DOMAIN X.at
                                      /\ k \in DOMAIN X.at => (d \in after[k] <=> d \in X.at[k]))
    /\ [][(phase \in {"seed", "search"} /\ X' # X) => Y' = Y]_vars

\* C12 witness: in the middle of seeding a board with several clues, with
\* candidates live that share no constraint with one another.
C12_Witness ==
    /\ phase = "seed"
    /\ Cardinality(SeededClues) >= 2
    /\ CluesLeft # {}
    /\ \E d \in Live : \E e \in Live : ~Shares(d, e)

\* C13 as stated: select on a live candidate r returns four snapshots, in the
\* order of Y[r], each the full candidate set of its constraint, r included.
C13_SnapshotsAreFullSets ==
    Indexed =>
        \A r \in Live :
            LET s == select(X, Y, r)
            IN  /\ ~s.err
                /\ Len(s.cols) = 4
                /\ \A q \in DOMAIN s.cols :
                      s.cols[q] = X.at[Y[r][q]] /\ r \in s.cols[q]

\* C13 amended: select on a live candidate r returns four snapshots, in the
\* order of Y[r]; the first is the full candidate set of r's first
\* constraint, r included; each later one is the set of its constraint
\* without the candidates of the constraints before it in Y[r], so r is in the
\* first snapshot only.
C13_SnapshotsAtPopTime ==
    Indexed =>
        \A r \in Live :
            LET s == select(X, Y, r)
            IN  /\ ~s.err
                /\ Len(s.cols) = 4
                /\ s.cols[1] = X.at[Y[r][1]]
                /\ r \in s.cols[1]
                /\ \A q \in 2..4 :
                      /\ s.cols[q] = X.at[Y[r][q]] \ UNION {X.at[Y[r][p]] : p \in 1..(q - 1)}
                      /\ r \notin s.cols[q]

\* C13 witness: the search is about to select a row whose block constraint
\* holds further candidates of the row's own row-value constraint.
C13_Witness ==
    /\ phase = "search"
    /\ Top.pc = "loop"
    /\ \E r \in Top.todo :
          /\ r \in Live
          /\ Cardinality(X.at[Y[r][4]] \cap X.at[Y[r][2]]) >= 2

\* C14: once attempt runs, no select and no deselect of the search raises
\* KeyError: every row still to be tried from the chosen constraint's list,
\* the later ones after the deselect of an earlier one included, is in X
\* under all four of its constraints, and the deselect about to run finds
\* every key it touches.
C14_NoKeyErrorInSearch ==
    /\ error # "KeyError"
    /\ (phase = "search" /\ Top.pc = "loop") =>
          /\ Top.todo \subseteq Live
          /\ \A r \in Top.todo : ~select(X, Y, r).err
    /\ (phase = "search" /\ Top.pc = "undo") =>
          ~deselect(X, Y, Top.row, Top.cols).err

\* C14 witness: after the deselect of an earlier row, a later row of the
\* same list is about to be selected, on a board with clues.
C14_Witness ==
    /\ phase = "search"
    /\ Top.pc = "loop"
    /\ Top.todo # {}
    /\ Top.todo # Top.rows
    /\ SeededClues # {}
    /\ Len(stack) >= 2

\* A candidate that was selected, or shares a constraint with a selected one.
NotLive(r) == r \in Selected \/ \E s \in Selected : Shares(r, s)

\* C15: in every state of X reached by successful selects, select on a
\* candidate that is not live (it was selected, or it shares a constraint
\* with a selected candidate) raises KeyError; and the candidates that are
\* not live in this sense are exactly those missing from X under one of
\* their constraints.
C15_SelectOnNonLiveFails ==
    Indexed =>
        \A r \in DOMAIN Y :
            /\ NotLive(r) => select(X, Y, r).err
            /\ NotLive(r) <=> r \notin Live

\* C15 witness: in the search, with clues seeded and rows selected, there are
\* candidates that were selected, candidates that only share a constraint
\* with a selected one, and live ones.
C15_Witness ==
    /\ phase = "search"
    /\ SeededClues # {}
    /\ Len(solution) >= 2
    /\ \E r \in DOMAIN Y : r \notin Selected /\ NotLive(r)
    /\ Live # {}

\* C16: for a board in which no two clues share a row-value, column-value or
\* block-value constraint, seeding does not fail: 'Invalid board.' is not
\* raised by solve and attempt gets called; and when such a board has no
\* completion, solve ends normally having yielded nothing.
C16_SeedingFailsOnlyOnConflict ==
    ~CluesConflict(input) =>
        /\ phase # "invalid"
        /\ (phase = "seed" /\ CluesLeft # {}) =>
              ~select(X, Y, LET p == CHOOSE q \in CluesLeft : \A o \in CluesLeft : q <= o
                            IN  <<p \div Size, p % Size,
                                  input[(p \div Size) + 1][(p % Size) + 1]>>).err
        /\ (SolveEnded /\ KnownCompletions(input) = {}) =>
              /\ phase # "crashed"
              /\ yielded = <<>>
              /\ stack = <<>>

\* C16 witness: solve has ended with nothing yielded, for a board with clues,
\* none of them in conflict, and with no completion.
C16_Witness ==
    /\ phase = "loopend"
    /\ display # -2
    /\ yielded = <<>>
    /\ ~CluesConflict(input)
    /\ Cardinality(SeededClues) >= 4
    /\ KnownCompletions(input) = {}

\* The cells of the input board that hold no clue.
EmptyCells == {a \in Cells(Size) : CellAt(input, a) = 0}

\* C17: at every operation boundary X has 4 * (N^2 - s) constraints, s being
\* the number of clues seeded plus the length of the Partial Solution; and
\* when attempt yields, X is empty and the Partial Solution holds exactly one
\* candidate for each empty cell of the input and none for a clue cell.
C17_ConstraintCount ==
    /\ Indexed =>
          /\ Len(X.keys) = 4 * (Size * Size - (Cardinality(SeededClues) + Len(solution)))
          /\ Cardinality(DOMAIN X.at) = Len(X.keys)
    /\ (phase = "yield" \/ (phase = "search" /\ Top.pc = "yielded")) =>
          /\ X.keys = <<>>
          /\ DOMAIN X.at = {}
          /\ Len(solution) = Cardinality(EmptyCells)
          /\ {<<solution[q][1], solution[q][2]>> : q \in DOMAIN solution} = EmptyCells
          /\ \A q \in DOMAIN solution : solution[q][3] \in 1..Size

\* C17 witness: attempt yields for a board with clues and at least four
\* empty cells.
C17_Witness ==
    /\ phase = "yield"
    /\ Cardinality(EmptyCells) >= 4
    /\ SeededClues # {}
    /\ Len(solution) >= 4

(***************************************************************************)
(* The program runs on one thread and every step it can take it takes:     *)
(* the specifications with that fairness, for the properties of progress.  *)
(***************************************************************************)
SpecFair == Spec /\ WF_vars(Next)

SpecLargeFair == SpecLarge /\ WF_vars(Next)

\* C18: once seeding has succeeded the search comes to its end: the loop
\* that requests solutions is over after finitely many steps, with the
\* sequence exhausted (or abandoned by a consumer that wanted no more); and
\* at no time are there more frames of attempt than empty cells in the input
\* board plus one.
C18_SearchTerminates ==
    /\ [](Len(stack) <= Cardinality(EmptyCells) + 1)
    /\ (phase = "search") ~> (phase = "loopend" /\ (stack = <<>> \/ display = -2))

====
